---- MODULE Spec2Model ----
(***************************************************************************)
(* The account-deletion request handler (the Deno.serve handler at the end *)
(* of src/src/pages/BusinessProfile.tsx, lines 396-551) and the table      *)
(* account_deletion_requests it reads and writes.                          *)
(*                                                                         *)
(* Every invocation of the handler is a process.  Its own code between two *)
(* awaits touches only its locals and the clock, so the points where       *)
(* invocations interleave are the storage calls: each action below is one  *)
(* storage call executed atomically by the database, together with the     *)
(* handler code that runs on its reply up to the next storage call or the  *)
(* response.  Time is counted in days.                                     *)
(***************************************************************************)
EXTENDS Integers, Sequences, FiniteSets, TLC

(* ------------------------------ bounds -------------------------------- *)

\* The table holds at most MaxRows rows: a lookup of request_deletion that
\* would lead to an insert beyond them is not answered.
MaxRows == 2

\* The clock runs from 0 to MaxTime days.
MaxTime == 1

\* The concurrent invocations.
Procs == {"p1", "p2"}

\* The accounts requests are made for.
Users == {"u1", "u2"}

(* --------------------------- program values --------------------------- *)

\* scheduledDeletionAt.setDate(getDate() + 3)
GraceDays == 3

\* A column that holds SQL NULL (cancelled_at of a row that was inserted
\* without it), and a timestamp local that was not computed.
NullTime == -1

\* A field of the JSON body that is absent (undefined after destructuring).
NoValue == "<undefined>"

\* The values `user_id` of a parsed body takes: an account, absent, or the
\* empty string.
UserIdInputs == Users \cup {NoValue, ""}

\* The values `action` of a parsed body takes: the three actions, another
\* string, or absent.
ActionInputs == {"request_deletion", "cancel_deletion", "get_status", "purge", NoValue}

\* A check for user_id === undefined in place of !user_id.
Truthy_Defined(v) == v # NoValue

\* JavaScript truthiness of a body field: !user_id is true for undefined and "".
Truthy(v) == v \notin {NoValue, ""}

\* The requests the handler is invoked with: a CORS preflight, a body that
\* req.json() cannot parse, or a parsed body {action, user_id}.
Requests ==
    {[method |-> "OPTIONS", body |-> "none", action |-> NoValue, user_id |-> NoValue]}
    \cup {[method |-> "POST", body |-> "malformed", action |-> NoValue, user_id |-> NoValue]}
    \cup {[method |-> "POST", body |-> "json", action |-> a, user_id |-> u] :
             a \in ActionInputs, u \in UserIdInputs}

NoRequest == [method |-> "none", body |-> "none", action |-> NoValue, user_id |-> NoValue]

\* JSON null where a row is expected (data: null of maybeSingle, request: null).
NullRow ==
    [id |-> 0, user_id |-> "", status |-> "", scheduled_deletion_at |-> NullTime,
     cancelled_at |-> NullTime]

\* The row the insert of request_deletion creates: the three columns the code
\* gives, id generated by the storage, cancelled_at left NULL.
NewRow(id, u, sched) ==
    [id |-> id, user_id |-> u, status |-> "pending", scheduled_deletion_at |-> sched,
     cancelled_at |-> NullTime]

\* The rows of a table, as a set.
RowsOf(t) == {t[i] : i \in 1..Len(t)}

(* ------------------------------ responses ----------------------------- *)

\* corsHeaders
CorsHeaders == {"Access-Control-Allow-Origin", "Access-Control-Allow-Headers"}

\* A response: HTTP status, the keys of the JSON body and their values, the
\* headers.  keys = {} is the null body of the preflight.
Response(status, keys, error, message, row, has) ==
    [status |-> status, keys |-> keys, error |-> error, message |-> message,
     row |-> row, has_pending_request |-> has, headers |-> CorsHeaders]

NoResponse ==
    [status |-> 0, keys |-> {}, error |-> "", message |-> "", row |-> NullRow,
     has_pending_request |-> FALSE, headers |-> {}]

PreflightResponse == Response(200, {}, "", "", NullRow, FALSE)

MissingUserIdResponse == Response(400, {"error"}, "user_id is required", "", NullRow, FALSE)

ConflictResponse(existing) ==
    Response(400, {"error", "existing_request"}, "A deletion request is already pending",
             "", existing, FALSE)

CreatedResponse(row) ==
    Response(200, {"success", "message", "deletion_request"}, "",
             "Account deletion scheduled", row, FALSE)

NotFoundResponse ==
    Response(404, {"error"}, "No pending deletion request found", "", NullRow, FALSE)

CancelledResponse(row) ==
    Response(200, {"success", "message", "deletion_request"}, "",
             "Account deletion cancelled", row, FALSE)

StatusResponse(row) ==
    Response(200, {"has_pending_request", "deletion_request"}, "", "", row, row # NullRow)

InvalidActionResponse ==
    Response(400, {"error"},
             "Invalid action. Use: request_deletion, cancel_deletion, or get_status",
             "", NullRow, FALSE)

\* The catch block answering without corsHeaders: { status: 500 } alone.
InternalResponse_NoCors(thrown) ==
    [Response(500, {"error"},
              IF thrown.isError THEN thrown.message ELSE "An unexpected error occurred",
              "", NullRow, FALSE) EXCEPT !.headers = {}]

\* The catch block: the message of the thrown value when it is an Error, a
\* fixed text otherwise.
InternalResponse(thrown) ==
    Response(500, {"error"},
             IF thrown.isError THEN thrown.message ELSE "An unexpected error occurred",
             "", NullRow, FALSE)

\* What req.json() throws on a body it cannot parse: a SyntaxError.
JsonSyntaxError == [isError |-> TRUE, message |-> "Unexpected token in JSON"]

\* The error object a storage call resolves with: the parsed JSON of the
\* error reply, a plain object with code and message (not an Error).
StorageError(code, message) == [isError |-> FALSE, code |-> code, message |-> message]

NoError == [isError |-> FALSE, code |-> "", message |-> ""]

NotSingular == StorageError("PGRST116", "JSON object requested, multiple (or no) rows returned")

Unavailable == StorageError("503", "storage unavailable")

(* ------------------------------ storage ------------------------------- *)

\* .maybeSingle(): no row gives data null, one row gives the row, more than
\* one is an error.  fault: the call itself failed (network, database).
MaybeSingle(rows, fault) ==
    IF fault THEN [data |-> NullRow, error |-> Unavailable]
    ELSE IF rows = {} THEN [data |-> NullRow, error |-> NoError]
    ELSE IF Cardinality(rows) = 1
         THEN [data |-> CHOOSE r \in rows : TRUE, error |-> NoError]
         ELSE [data |-> NullRow, error |-> NotSingular]

\* .single(): exactly one row gives the row, none or several is the error
\* PGRST116.
Single(rows, fault) ==
    IF fault THEN [data |-> NullRow, error |-> Unavailable]
    ELSE IF Cardinality(rows) = 1
         THEN [data |-> CHOOSE r \in rows : TRUE, error |-> NoError]
         ELSE [data |-> NullRow, error |-> NotSingular]

\* The lookup of request_deletion with the wrong status in its filter.
RequestLookupRows_WrongStatus(t, u) ==
    {r \in RowsOf(t) : r.user_id = u /\ r.status = "cancelled"}

\* request_deletion: .select('*').eq('user_id', user_id).eq('status', 'pending')
RequestLookupRows(t, u) ==
    {r \in RowsOf(t) : r.user_id = u /\ r.status = "pending"}

\* The filter of cancel_deletion without .eq('user_id', user_id).
CancelMatchRows_AnyUser(t, u) ==
    {r \in RowsOf(t) : r.status = "pending"}

\* The filter of cancel_deletion without .eq('status', 'pending').
CancelMatchRows_AnyStatus(t, u) ==
    {r \in RowsOf(t) : r.user_id = u}

\* cancel_deletion: the rows .eq('user_id', user_id).eq('status', 'pending')
\* of the update select.
CancelMatchRows(t, u) ==
    {r \in RowsOf(t) : r.user_id = u /\ r.status = "pending"}

\* get_status: .select('*').eq('user_id', user_id).eq('status', 'pending')
StatusLookupRows(t, u) ==
    {r \in RowsOf(t) : r.user_id = u /\ r.status = "pending"}

\* cancel_deletion with .delete() in place of .update(): the matching rows
\* are removed from the table and returned.
CancelUpdate_Delete(t, u, at, fault) ==
    LET hit == CancelMatchRows(t, u)
        res == Single(hit, fault)
    IN  [result |-> res,
         table  |-> IF res.error = NoError
                    THEN SelectSeq(t, LAMBDA r : r \notin hit)
                    ELSE t]

\* The update also moving the deadline:
\* .update({status: 'cancelled', cancelled_at, scheduled_deletion_at: cancelled_at}).
CancelledRow_Reschedule(r, at) ==
    [r EXCEPT !.status = "cancelled", !.cancelled_at = at, !.scheduled_deletion_at = at]

\* The update without cancelled_at: .update({status: 'cancelled'}).
CancelledRow_NoTimestamp(r, at) == [r EXCEPT !.status = "cancelled"]

\* .update({status: 'cancelled', cancelled_at: ...}) of one row.
CancelledRow(r, at) == [r EXCEPT !.status = "cancelled", !.cancelled_at = at]

\* The update whose rows stay written when .single() fails on their number.
CancelUpdate_NoRollback(t, u, at, fault) ==
    LET hit == CancelMatchRows(t, u)
        res == Single({CancelledRow(r, at) : r \in hit}, fault)
    IN  [result |-> res,
         table  |-> IF ~fault
                    THEN [i \in 1..Len(t) |->
                             IF t[i] \in hit THEN CancelledRow(t[i], at) ELSE t[i]]
                    ELSE t]

\* The update of cancel_deletion with .select().single(): one statement in
\* one transaction.  The rows updated are returned through .single(); when
\* they are not exactly one the request fails and its transaction is rolled
\* back, so the table changes only when exactly one row matched.
CancelUpdate(t, u, at, fault) ==
    LET hit == CancelMatchRows(t, u)
        res == Single({CancelledRow(r, at) : r \in hit}, fault)
    IN  [result |-> res,
         table  |-> IF res.error = NoError
                    THEN [i \in 1..Len(t) |->
                             IF t[i] \in hit THEN CancelledRow(t[i], at) ELSE t[i]]
                    ELSE t]

\* .insert({user_id, scheduled_deletion_at, status: 'pending'}).select().single():
\* the table with the new row, and the row.
InsertRequest(t, u, sched, fault) ==
    LET row == NewRow(Len(t) + 1, u, sched)
    IN  IF fault THEN [result |-> [data |-> NullRow, error |-> Unavailable], table |-> t]
        ELSE [result |-> Single({row}, FALSE), table |-> Append(t, row)]

\* The chain with get_status sent to the branch of cancel_deletion.
Branch_StatusCancels(action) ==
    IF action = "request_deletion" THEN "request"
    ELSE IF action \in {"cancel_deletion", "get_status"} THEN "cancel"
    ELSE "invalid"

\* setDate(3) in place of setDate(getDate() + 3): the third of the month.
ScheduledDeletionAt_SetDate(t) == GraceDays

\* scheduledDeletionAt = new Date(); setDate(getDate() + 3): three days after
\* the time t at which it is evaluated.
ScheduledDeletionAt(t) == t + GraceDays

\* The chain without its final else: whatever is not request_deletion or
\* cancel_deletion is served as get_status.
Branch_NoElse(action) ==
    IF action = "request_deletion" THEN "request"
    ELSE IF action = "cancel_deletion" THEN "cancel"
    ELSE "status"

\* The branch of the if / else-if chain on `action`.
Branch(action) ==
    IF action = "request_deletion" THEN "request"
    ELSE IF action = "cancel_deletion" THEN "cancel"
    ELSE IF action = "get_status" THEN "status"
    ELSE "invalid"

(* --------------------------- Messages page ---------------------------- *)
(* src/src/pages/Messages.tsx: the component state, the fetches of         *)
(* messages in flight, the realtime channel and its events on their way,   *)
(* the tables messages and conversations, and handleSend.                  *)

\* The rows of the table messages are at most MaxMsgs.
MaxMsgs == 2

\* The fetches of messages in flight are at most MaxFetches.
MaxFetches == 2

\* The conversations of the user.
Convs == {"c1", "c2"}

\* No conversation selected (selectedConversation is null), no signed-in
\* user (user is null).
None == "none"

\* The texts of the input, as sequences of characters.
Texts == {<<>>, <<" ">>, <<" ", "a", " ">>}

\* String.prototype.trim(): the text without its leading and trailing
\* whitespace.
RECURSIVE TrimStart(_)
TrimStart(s) == IF s # <<>> /\ Head(s) = " " THEN TrimStart(Tail(s)) ELSE s

RECURSIVE TrimEnd(_)
TrimEnd(s) ==
    IF s # <<>> /\ s[Len(s)] = " " THEN TrimEnd(SubSeq(s, 1, Len(s) - 1)) ELSE s

Trim(s) == TrimEnd(TrimStart(s))

\* A row of messages: id is its place in the table, in the order of
\* created_at.
MessageRow(id, conv, sender, content) ==
    [id |-> id, conv |-> conv, sender |-> sender, content |-> content]

\* .from('messages').select('*').eq('conversation_id', convId)
\*   .order('created_at', { ascending: true })
ConvMessages(d, c) == SelectSeq(d, LAMBDA m : m.conv = c)

\* The rows of messages the signed-in user sent.
Mine(d) == SelectSeq(d, LAMBDA m : m.sender = "me")

\* s without its i-th element.
Without(s, i) == SubSeq(s, 1, i - 1) \o SubSeq(s, i + 1, Len(s))

VARIABLES
    user,           \* useAuth().user: "me" or None
    selected,       \* selectedConversation (its id), or None
    messages,       \* the state `messages`: the list displayed
    fetches,        \* the fetchMessages in flight, in the order they were sent
    channel,        \* the realtime channel of the subscription effect
    events,         \* the INSERT events on their way to the channel's callback
    db,             \* the table messages
    lastMessageAt,  \* conversations.last_message_at: per conversation, the
                    \* number of times handleSend has set it
    newMessage,     \* the state `newMessage`: the text of the input
    sending,        \* the state `sending`
    send            \* the call of handleSend: where it is, what it captured
                    \* when it was called, how it ended

pagevars ==
    <<user, selected, messages, fetches, channel, events, db, lastMessageAt,
      newMessage, sending, send>>

NoChannel == [conv |-> None, joined |-> FALSE]

\* No call of handleSend is running.
NoSend ==
    [at |-> "idle", conv |-> None, content |-> <<>>, outcome |-> "",
     user |-> None, text |-> <<>>, mine |-> <<>>, stamps |-> [c \in Convs |-> 0]]

\* The page as it is mounted: the session is not resolved yet, nothing is
\* selected, the tables are empty.
PageInit ==
    /\ user = None
    /\ selected = None
    /\ messages = <<>>
    /\ fetches = <<>>
    /\ channel = NoChannel
    /\ events = <<>>
    /\ db = <<>>
    /\ lastMessageAt = [c \in Convs |-> 0]
    /\ newMessage = <<>>
    /\ sending = FALSE
    /\ send = NoSend

\* The table messages after the insert of a row, and the events on their
\* way: the insert is published to the channel when the channel has joined
\* and its filter conversation_id=eq.<id> matches.
Published(row) ==
    IF channel.joined /\ channel.conv = row.conv THEN Append(events, row) ELSE events

\* The session resolves: useAuth() gives the user.
SignIn ==
    /\ user = None
    /\ user' = "me"
    /\ UNCHANGED <<selected, messages, fetches, channel, events, db, lastMessageAt,
                   newMessage, sending, send>>

\* The user opens conversation c (selectConversation, or the route
\* /messages/:conversationId): setSelectedConversation, then the effects of
\* the render: the old channel is removed and a channel for c is created,
\* and loadConversation sends fetchMessages(c).  The conversations are
\* loaded only for a signed-in user.
SelectConversation(c) ==
    /\ user # None
    /\ c # selected
    /\ Len(fetches) < MaxFetches
    /\ selected' = c
    /\ channel' = [conv |-> c, joined |-> FALSE]
    /\ events' = <<>>
    /\ fetches' = Append(fetches, [conv |-> c, ran |-> FALSE, data |-> <<>>])
    /\ UNCHANGED <<user, messages, db, lastMessageAt, newMessage, sending, send>>

\* The subscription of the channel is acknowledged: from now on the inserts
\* that match its filter are published to it.
Join ==
    /\ channel.conv # None
    /\ ~channel.joined
    /\ channel' = [channel EXCEPT !.joined = TRUE]
    /\ UNCHANGED <<user, selected, messages, fetches, events, db, lastMessageAt,
                   newMessage, sending, send>>

\* The other participant of conversation c sends a message: a row is
\* inserted in messages.
DbInsert(c) ==
    /\ Len(db) < MaxMsgs
    /\ LET row == MessageRow(Len(db) + 1, c, "other", <<"a">>)
       IN  /\ db' = Append(db, row)
           /\ events' = Published(row)
    /\ UNCHANGED <<user, selected, messages, fetches, channel, lastMessageAt,
                   newMessage, sending, send>>

\* The select of the i-th fetch in flight runs in the storage.
FetchQuery(i) ==
    /\ i \in 1..Len(fetches)
    /\ ~fetches[i].ran
    /\ fetches' = [fetches EXCEPT ![i].ran = TRUE,
                                  ![i].data = ConvMessages(db, fetches[i].conv)]
    /\ UNCHANGED <<user, selected, messages, channel, events, db, lastMessageAt,
                   newMessage, sending, send>>

\* The reply of the i-th fetch in flight arrives: setMessages(data || []).
FetchReply(i) ==
    /\ i \in 1..Len(fetches)
    /\ fetches[i].ran
    /\ messages' = fetches[i].data
    /\ fetches' = Without(fetches, i)
    /\ UNCHANGED <<user, selected, channel, events, db, lastMessageAt, newMessage,
                   sending, send>>

\* An INSERT event reaches the callback of the channel:
\* setMessages((prev) => [...prev, newMsg]).
Deliver ==
    /\ events # <<>>
    /\ messages' = Append(messages, Head(events))
    /\ events' = Tail(events)
    /\ UNCHANGED <<user, selected, fetches, channel, db, lastMessageAt, newMessage,
                   sending, send>>

\* The user types: onChange sets newMessage.  The input is disabled while
\* sending.
Type(t) ==
    /\ ~sending
    /\ send.at = "idle"
    /\ t # newMessage
    /\ newMessage' = t
    /\ UNCHANGED <<user, selected, messages, fetches, channel, events, db,
                   lastMessageAt, sending, send>>

\* handleSend is called (the form is submitted; the input and the button are
\* disabled while sending): the guard, setSending(true), and the insert is
\* sent with the conversation, the user and the trimmed text of this render.
HandleSend ==
    /\ ~sending
    /\ send.at = "idle"
    /\ LET call == [NoSend EXCEPT !.user = user, !.conv = selected, !.text = newMessage,
                                  !.content = Trim(newMessage), !.mine = Mine(db),
                                  !.stamps = lastMessageAt]
       IN  IF user = None \/ selected = None \/ Trim(newMessage) = <<>>
           THEN /\ send' = [call EXCEPT !.at = "finished", !.outcome = "ignored"]
                /\ UNCHANGED sending
           ELSE /\ send' = [call EXCEPT !.at = "insert"]
                /\ sending' = TRUE
    /\ UNCHANGED <<user, selected, messages, fetches, channel, events, db,
                   lastMessageAt, newMessage>>

\* handleSend without its finally block: setSending(false) only after the
\* update, so that a failed insert leaves sending = true.
SendInsert_NoFinally(fault) ==
    /\ send.at = "insert"
    /\ IF fault
       THEN /\ send' = [send EXCEPT !.at = "finished", !.outcome = "failed"]
            /\ UNCHANGED <<sending, db, events>>
       ELSE /\ Len(db) < MaxMsgs
            /\ LET row == MessageRow(Len(db) + 1, send.conv, send.user, send.content)
               IN  /\ db' = Append(db, row)
                   /\ events' = Published(row)
            /\ send' = [send EXCEPT !.at = "update"]
            /\ UNCHANGED sending
    /\ UNCHANGED <<user, selected, messages, fetches, channel, lastMessageAt, newMessage>>

\* The insert of handleSend runs.  On an error the handler throws: the toast,
\* then finally setSending(false).  Else the update of the conversation is
\* sent.
SendInsert(fault) ==
    /\ send.at = "insert"
    /\ IF fault
       THEN /\ send' = [send EXCEPT !.at = "finished", !.outcome = "failed"]
            /\ sending' = FALSE
            /\ UNCHANGED <<db, events>>
       ELSE /\ Len(db) < MaxMsgs
            /\ LET row == MessageRow(Len(db) + 1, send.conv, send.user, send.content)
               IN  /\ db' = Append(db, row)
                   /\ events' = Published(row)
            /\ send' = [send EXCEPT !.at = "update"]
            /\ UNCHANGED sending
    /\ UNCHANGED <<user, selected, messages, fetches, channel, lastMessageAt, newMessage>>

\* The update of conversations.last_message_at runs; its result is not
\* looked at.  Then setNewMessage('') and finally setSending(false).
SendUpdate(fault) ==
    /\ send.at = "update"
    /\ lastMessageAt' =
          IF fault THEN lastMessageAt ELSE [lastMessageAt EXCEPT ![send.conv] = @ + 1]
    /\ newMessage' = <<>>
    /\ sending' = FALSE
    /\ send' = [send EXCEPT !.at = "finished", !.outcome = "sent"]
    /\ UNCHANGED <<user, selected, messages, fetches, channel, events, db>>

\* handleSend has returned.
SendReturn ==
    /\ send.at = "finished"
    /\ send' = NoSend
    /\ UNCHANGED <<user, selected, messages, fetches, channel, events, db,
                   lastMessageAt, newMessage, sending>>

(* ------------------------ BusinessProfile: follow ---------------------- *)
(* src/src/pages/BusinessProfile.tsx, handleFollow (lines 172-200): the    *)
(* component state and the row of business_follows of the user.            *)

\* handleFollow is called at most MaxCalls times.
MaxCalls == 5

VARIABLES
    isFollowing,    \* the state `isFollowing`
    followerCount,  \* the state `followerCount`
    followLoading,  \* the state `followLoading`
    followRow,      \* business_follows holds a row of the user for the business
    follow,         \* the call of handleFollow: where it is, the isFollowing
                    \* of the render it was called in, how its write ended
    followCalls,    \* the calls of handleFollow so far
    followDelta     \* the sum over the writes that succeeded: +1 for an
                    \* insert, -1 for a delete

followvars ==
    <<isFollowing, followerCount, followLoading, followRow, follow, followCalls,
      followDelta>>

NoFollow == [at |-> "idle", was |-> FALSE, outcome |-> ""]

\* The page as loaded for a business the user does not follow and that has
\* no follower.
FollowInit ==
    /\ isFollowing = FALSE
    /\ followerCount = 0
    /\ followLoading = FALSE
    /\ followRow = FALSE
    /\ follow = NoFollow
    /\ followCalls = 0
    /\ followDelta = 0

\* handleFollow is called (the button is disabled while followLoading).
\* Without a user it navigates to /auth; else setFollowLoading(true) and the
\* delete or the insert is sent, by the isFollowing of this render.
HandleFollow ==
    /\ ~followLoading
    /\ follow.at = "idle"
    /\ followCalls < MaxCalls
    /\ followCalls' = followCalls + 1
    /\ IF user = None
       THEN /\ follow' = [NoFollow EXCEPT !.at = "finished", !.outcome = "auth"]
            /\ UNCHANGED followLoading
       ELSE /\ follow' = [NoFollow EXCEPT !.at = "write", !.was = isFollowing]
            /\ followLoading' = TRUE
    /\ UNCHANGED <<isFollowing, followerCount, followRow, followDelta>>

\* The write runs and resolves; the client resolves with {error} on a
\* failure and does not throw, and the result is not looked at:
\* setIsFollowing, setFollowerCount, finally setFollowLoading(false).
FollowWrite(fault) ==
    /\ follow.at = "write"
    /\ followRow' = IF fault THEN followRow ELSE ~follow.was
    /\ followDelta' =
          IF fault THEN followDelta
          ELSE IF follow.was THEN followDelta - 1 ELSE followDelta + 1
    /\ isFollowing' = ~follow.was
    /\ followerCount' = IF follow.was THEN followerCount - 1 ELSE followerCount + 1
    /\ followLoading' = FALSE
    /\ follow' = [follow EXCEPT !.at = "finished",
                                !.outcome = IF fault THEN "failed" ELSE "written"]
    /\ UNCHANGED followCalls

\* handleFollow has returned.
FollowReturn ==
    /\ follow.at = "finished"
    /\ follow' = NoFollow
    /\ UNCHANGED <<isFollowing, followerCount, followLoading, followRow, followCalls,
                   followDelta>>

(* ------------------------------- state -------------------------------- *)

VARIABLES
    table,    \* account_deletion_requests: the rows in insertion order; id = index
    now,      \* the clock, in days
    pc,       \* per invocation: idle, check, insert, cancel, status, done
    req,      \* per invocation: the request it was invoked with
    loc,      \* per invocation: its locals (see NoLocals)
    resp,     \* per invocation: the response it returns
    reads,    \* per invocation: storage reads issued (select)
    writes,   \* per invocation: storage writes issued (insert, update)
    logged,   \* per invocation: the console.log of action and user ran
    prev,     \* the table as it was before the step that built the response of
              \* the invocation that is answering (<<>> when none is)
    beaten    \* per invocation of cancel_deletion: while its update was on its
              \* way, another cancel_deletion cancelled the pending row of the
              \* same user, and no row was inserted for that user since

vars == <<table, now, pc, req, loc, resp, reads, writes, logged, prev, beaten>>

\* The locals of an invocation: t, the new Date() of request_deletion, and
\* sched, the scheduledDeletionAt computed from it; at, the new Date() of
\* cancel_deletion; existing, the existingRequest the lookup of
\* request_deletion resolved with; error, the error its last storage call
\* resolved with (checkError, insertError, cancelError, statusError).
NoLocals ==
    [t |-> NullTime, sched |-> NullTime, at |-> NullTime, existing |-> NullRow,
     error |-> NoError]

Init ==
    /\ table = <<>>
    /\ now = 0
    /\ pc = [p \in Procs |-> "idle"]
    /\ req = [p \in Procs |-> NoRequest]
    /\ loc = [p \in Procs |-> NoLocals]
    /\ resp = [p \in Procs |-> NoResponse]
    /\ reads = [p \in Procs |-> 0]
    /\ writes = [p \in Procs |-> 0]
    /\ logged = [p \in Procs |-> FALSE]
    /\ prev = <<>>
    /\ beaten = [p \in Procs |-> FALSE]
    /\ PageInit
    /\ FollowInit

\* The invocations whose insert is on its way to the storage.
Inserting == {p \in Procs : pc[p] = "insert"}

\* The handler answers: the response is built and the invocation ends.
Answer(p, r) ==
    /\ pc' = [pc EXCEPT ![p] = "done"]
    /\ resp' = [resp EXCEPT ![p] = r]
    /\ prev' = table

\* A response is returned in the turn of the event loop that builds it: no
\* step of another invocation, of the clock or of the reaper comes between
\* the two.
Quiet == \A q \in Procs : pc[q] # "done"

(* ------------------------------ actions ------------------------------- *)

\* The handler is invoked with request r and runs to its first storage call:
\* the preflight branch, req.json(), the user_id check, the console.log and
\* the dispatch on action.  cancel_deletion evaluates new Date() for
\* cancelled_at here, before the update is sent.
Begin(p, r) ==
    /\ Quiet
    /\ pc[p] = "idle"
    /\ req' = [req EXCEPT ![p] = r]
    /\ UNCHANGED <<table, now, beaten>>
    /\ IF r.method = "OPTIONS"
       THEN /\ Answer(p, PreflightResponse)
            /\ UNCHANGED <<loc, reads, writes, logged>>
       ELSE IF r.body = "malformed"
       THEN /\ Answer(p, InternalResponse(JsonSyntaxError))
            /\ UNCHANGED <<loc, reads, writes, logged>>
       ELSE IF ~Truthy(r.user_id)
       THEN /\ Answer(p, MissingUserIdResponse)
            /\ UNCHANGED <<loc, reads, writes, logged>>
       ELSE /\ logged' = [logged EXCEPT ![p] = TRUE]
            /\ CASE Branch(r.action) = "request" ->
                      /\ pc' = [pc EXCEPT ![p] = "check"]
                      /\ reads' = [reads EXCEPT ![p] = @ + 1]
                      /\ UNCHANGED <<loc, resp, writes, prev>>
                 [] Branch(r.action) = "cancel" ->
                      /\ pc' = [pc EXCEPT ![p] = "cancel"]
                      /\ loc' = [loc EXCEPT ![p].at = now]
                      /\ writes' = [writes EXCEPT ![p] = @ + 1]
                      /\ UNCHANGED <<resp, reads, prev>>
                 [] Branch(r.action) = "status" ->
                      /\ pc' = [pc EXCEPT ![p] = "status"]
                      /\ reads' = [reads EXCEPT ![p] = @ + 1]
                      /\ UNCHANGED <<loc, resp, writes, prev>>
                 [] OTHER ->
                      /\ Answer(p, InvalidActionResponse)
                      /\ UNCHANGED <<loc, reads, writes>>

\* The lookup of request_deletion in a retry loop of two attempts: after a
\* first error the select is sent again.
RequestLookup_Retry(p, fault) ==
    /\ Quiet
    /\ pc[p] = "check"
    /\ LET res == MaybeSingle(RequestLookupRows(table, req[p].user_id), fault)
       IN  IF res.error # NoError /\ reads[p] < 2
           THEN /\ loc' = [loc EXCEPT ![p].error = res.error]
                /\ reads' = [reads EXCEPT ![p] = @ + 1]
                /\ UNCHANGED <<pc, resp, prev, writes>>
           ELSE IF res.error # NoError
           THEN /\ Answer(p, InternalResponse(res.error))
                /\ loc' = [loc EXCEPT ![p].error = res.error]
                /\ UNCHANGED <<reads, writes>>
           ELSE IF res.data # NullRow
           THEN /\ Answer(p, ConflictResponse(res.data))
                /\ loc' = [loc EXCEPT ![p].existing = res.data, ![p].error = NoError]
                /\ UNCHANGED <<reads, writes>>
           ELSE /\ Len(table) + Cardinality(Inserting) < MaxRows
                /\ pc' = [pc EXCEPT ![p] = "insert"]
                /\ loc' = [loc EXCEPT ![p].t = now, ![p].sched = ScheduledDeletionAt(now),
                                      ![p].error = NoError]
                /\ writes' = [writes EXCEPT ![p] = @ + 1]
                /\ UNCHANGED <<resp, prev, reads>>
    /\ UNCHANGED <<table, now, req, logged, beaten>>

\* request_deletion: the lookup of a pending request runs, then the handler
\* throws on an error, answers the conflict, or computes scheduledDeletionAt
\* and sends the insert.
RequestLookup(p, fault) ==
    /\ Quiet
    /\ pc[p] = "check"
    /\ LET res == MaybeSingle(RequestLookupRows(table, req[p].user_id), fault)
       IN  IF res.error # NoError
           THEN /\ Answer(p, InternalResponse(res.error))
                /\ loc' = [loc EXCEPT ![p].error = res.error]
                /\ UNCHANGED writes
           ELSE IF res.data # NullRow
           THEN /\ Answer(p, ConflictResponse(res.data))
                /\ loc' = [loc EXCEPT ![p].existing = res.data]
                /\ UNCHANGED writes
           ELSE /\ Len(table) + Cardinality(Inserting) < MaxRows
                /\ pc' = [pc EXCEPT ![p] = "insert"]
                /\ loc' = [loc EXCEPT ![p].t = now, ![p].sched = ScheduledDeletionAt(now)]
                /\ writes' = [writes EXCEPT ![p] = @ + 1]
                /\ UNCHANGED <<resp, prev>>
    /\ UNCHANGED <<table, now, req, reads, logged, beaten>>

\* request_deletion: the insert runs, then the handler throws on an error or
\* answers with the created row.
RequestInsert(p, fault) ==
    /\ Quiet
    /\ pc[p] = "insert"
    /\ LET ins == InsertRequest(table, req[p].user_id, loc[p].sched, fault)
       IN  /\ table' = ins.table
           /\ loc' = [loc EXCEPT ![p].error = ins.result.error]
           /\ IF ins.result.error # NoError
              THEN Answer(p, InternalResponse(ins.result.error))
              ELSE Answer(p, CreatedResponse(ins.result.data))
           /\ beaten' = [q \in Procs |->
                 IF req[q].user_id = req[p].user_id /\ ins.result.error = NoError
                 THEN FALSE ELSE beaten[q]]
    /\ UNCHANGED <<now, req, reads, writes, logged>>

\* cancel_deletion: the update runs, then the handler answers 404 on
\* PGRST116, throws on another error, or answers with the updated row.
CancelDeletion(p, fault) ==
    /\ Quiet
    /\ pc[p] = "cancel"
    /\ LET upd == CancelUpdate(table, req[p].user_id, loc[p].at, fault)
       IN  /\ table' = upd.table
           /\ loc' = [loc EXCEPT ![p].error = upd.result.error]
           /\ IF upd.result.error # NoError
              THEN IF upd.result.error.code = "PGRST116"
                   THEN Answer(p, NotFoundResponse)
                   ELSE Answer(p, InternalResponse(upd.result.error))
              ELSE Answer(p, CancelledResponse(upd.result.data))
           /\ beaten' = [q \in Procs |->
                 IF /\ q # p /\ pc[q] = "cancel" /\ req[q].user_id = req[p].user_id
                    /\ upd.result.error = NoError
                 THEN TRUE ELSE beaten[q]]
    /\ UNCHANGED <<now, req, reads, writes, logged>>

\* get_status: the lookup runs, then the handler throws on an error or
\* answers with the row or null.
GetStatus(p, fault) ==
    /\ Quiet
    /\ pc[p] = "status"
    /\ LET res == MaybeSingle(StatusLookupRows(table, req[p].user_id), fault)
       IN  /\ loc' = [loc EXCEPT ![p].error = res.error]
           /\ IF res.error # NoError
              THEN Answer(p, InternalResponse(res.error))
              ELSE Answer(p, StatusResponse(res.data))
    /\ UNCHANGED <<table, now, req, reads, writes, logged, beaten>>

\* The response is delivered and the invocation is over.
Return(p) ==
    /\ pc[p] = "done"
    /\ pc' = [pc EXCEPT ![p] = "idle"]
    /\ req' = [req EXCEPT ![p] = NoRequest]
    /\ loc' = [loc EXCEPT ![p] = NoLocals]
    /\ resp' = [resp EXCEPT ![p] = NoResponse]
    /\ reads' = [reads EXCEPT ![p] = 0]
    /\ writes' = [writes EXCEPT ![p] = 0]
    /\ logged' = [logged EXCEPT ![p] = FALSE]
    /\ prev' = <<>>
    /\ beaten' = [beaten EXCEPT ![p] = FALSE]
    /\ UNCHANGED <<table, now>>

\* A day passes.
Tick ==
    /\ Quiet
    /\ now < MaxTime
    /\ now' = now + 1
    /\ UNCHANGED <<table, pc, req, loc, resp, reads, writes, logged, prev, beaten>>

\* The external process that completes a pending request.  It is not part
\* of the repository and nothing here relies on when it runs, so it may
\* complete any pending request at any moment: that only adds behaviours to
\* those of a process that waits for scheduled_deletion_at.
Reaper(i) ==
    /\ Quiet
    /\ i \in 1..Len(table)
    /\ table[i].status = "pending"
    /\ table' = [table EXCEPT ![i].status = "completed"]
    /\ UNCHANGED <<now, pc, req, loc, resp, reads, writes, logged, prev, beaten>>

\* The three actions of the handler.
Actions == {"request_deletion", "cancel_deletion", "get_status"}

\* The requests that reach the storage: a parsed body with one of the three
\* actions and a user_id.
StorageRequests ==
    {r \in Requests : r.body = "json" /\ r.action \in Actions /\ r.user_id \in Users}

\* Invocations run concurrently and the storage does not fail.  The requests
\* are those that reach the storage: the others are answered in the step
\* that starts them and touch no state another invocation sees; SeqNext runs
\* them, and the process that completes requests.
Next ==
    /\ \/ \E p \in Procs, r \in StorageRequests : Begin(p, r)
       \/ \E p \in Procs : RequestLookup(p, FALSE)
       \/ \E p \in Procs : RequestInsert(p, FALSE)
       \/ \E p \in Procs : CancelDeletion(p, FALSE)
       \/ \E p \in Procs : GetStatus(p, FALSE)
       \/ \E p \in Procs : Return(p)
       \/ Tick
    /\ UNCHANGED <<pagevars, followvars>>

Spec == Init /\ [][Next]_vars

\* No invocation is running.
AllIdle == \A q \in Procs : pc[q] = "idle"

\* Invocations run one at a time: an invocation starts only when every
\* other one has returned.  Any request; the storage does not fail; pending
\* requests may be completed between the steps.
SeqNext ==
    /\ \/ \E p \in Procs, r \in Requests : AllIdle /\ Begin(p, r)
       \/ \E p \in Procs : RequestLookup(p, FALSE)
       \/ \E p \in Procs : RequestInsert(p, FALSE)
       \/ \E p \in Procs : CancelDeletion(p, FALSE)
       \/ \E p \in Procs : GetStatus(p, FALSE)
       \/ \E p \in Procs : Return(p)
       \/ Tick
       \/ \E i \in 1..MaxRows : Reaper(i)
    /\ UNCHANGED <<pagevars, followvars>>

SeqSpec == Init /\ [][SeqNext]_vars

\* Invocations run one at a time and any storage call may fail (the network,
\* the database): it then resolves with an error and writes nothing.  Any
\* request; pending requests may be completed between the steps.
FaultNext ==
    /\ \/ \E p \in Procs, r \in Requests : AllIdle /\ Begin(p, r)
       \/ \E p \in Procs, fault \in BOOLEAN : RequestLookup(p, fault)
       \/ \E p \in Procs, fault \in BOOLEAN : RequestInsert(p, fault)
       \/ \E p \in Procs, fault \in BOOLEAN : CancelDeletion(p, fault)
       \/ \E p \in Procs, fault \in BOOLEAN : GetStatus(p, fault)
       \/ \E p \in Procs : Return(p)
       \/ Tick
       \/ \E i \in 1..MaxRows : Reaper(i)
    /\ UNCHANGED <<pagevars, followvars>>

FaultSpec == Init /\ [][FaultNext]_vars

\* Every variable of the module.
allvars == <<vars, pagevars, followvars>>

\* The Messages page without its input: the user signs in and opens
\* conversations; the other participant sends; fetches, the subscription and
\* its events complete in any order.
MsgNext ==
    /\ \/ SignIn
       \/ \E c \in Convs : SelectConversation(c)
       \/ Join
       \/ \E c \in Convs : DbInsert(c)
       \/ \E i \in 1..MaxFetches : FetchQuery(i)
       \/ \E i \in 1..MaxFetches : FetchReply(i)
       \/ Deliver
    /\ UNCHANGED <<vars, followvars>>

MsgSpec == Init /\ [][MsgNext]_allvars

\* The Messages page with its input: the user signs in, opens
\* conversations, types and sends, and the writes of handleSend may fail;
\* fetches complete in any order.  Only the user sends, and the
\* subscription is not acknowledged.
SendNext ==
    /\ \/ SignIn
       \/ \E c \in Convs : SelectConversation(c)
       \/ \E i \in 1..MaxFetches : FetchQuery(i)
       \/ \E i \in 1..MaxFetches : FetchReply(i)
       \/ \E t \in Texts : Type(t)
       \/ HandleSend
       \/ \E fault \in BOOLEAN : SendInsert(fault)
       \/ \E fault \in BOOLEAN : SendUpdate(fault)
       \/ SendReturn
    /\ UNCHANGED <<vars, followvars>>

SendSpec == Init /\ [][SendNext]_allvars

\* The follow button of the BusinessProfile page: the user signs in and
\* clicks; the write of each call may fail.
FollowNext ==
    /\ \/ SignIn /\ UNCHANGED followvars
       \/ HandleFollow /\ UNCHANGED pagevars
       \/ \E fault \in BOOLEAN : FollowWrite(fault) /\ UNCHANGED pagevars
       \/ FollowReturn /\ UNCHANGED pagevars
    /\ UNCHANGED vars

FollowSpec == Init /\ [][FollowNext]_allvars

(* ------------------------------ claims -------------------------------- *)

\* The ids of the rows of user u whose status is pending, in a table.
PendingIn(t, u) == {i \in 1..Len(t) : t[i].user_id = u /\ t[i].status = "pending"}

\* Invocation p has built its response to a parsed request for `action`
\* that names a user.
Answered(p, action) ==
    /\ pc[p] = "done"
    /\ req[p].body = "json"
    /\ req[p].action = action
    /\ req[p].user_id \in Users

\* The rows of user u whose status is pending, in a table.
PendingRows(t, u) == {t[i] : i \in PendingIn(t, u)}

\* C1: with concurrent invocations, whose storage calls interleave in any
\* order, every reachable table holds at most one pending row per user_id.
C1_OnePendingConcurrent ==
    \A u \in Users : Cardinality(PendingIn(table, u)) <= 1

\* C2: with invocations run one at a time from an empty table, after any
\* sequence of them each user_id has at most one pending row.
C2_OnePendingSerial ==
    \A u \in Users : \A i, j \in PendingIn(table, u) : i = j

\* C2, its case: a second request_deletion for a user was answered with the
\* conflict and the user's pending row is still the only one.
C2_Witness ==
    \E p \in Procs :
        /\ pc[p] = "done"
        /\ req[p].action = "request_deletion"
        /\ resp[p].status = 400
        /\ Cardinality(PendingIn(table, req[p].user_id)) = 1
        /\ Len(table) = 2
        /\ resp[p].row = table[2]

\* C3: two cancel_deletion invocations for the same user that run
\* concurrently while the user has exactly one pending row never both report
\* success.  The one whose update runs first answers success with the
\* cancelled row; the other, whose update was on its way meanwhile, answers
\* NotFound (404) and changes nothing, so the row is cancelled once.
C3_CancelRaceOneWinner ==
    \A p \in Procs :
        Answered(p, "cancel_deletion") =>
            LET u == req[p].user_id IN
            /\ ( /\ Cardinality(PendingIn(prev, u)) = 1
                 /\ \E q \in Procs \ {p} : pc[q] = "cancel" /\ req[q].user_id = u )
               => /\ resp[p].status = 200
                  /\ resp[p].row.status = "cancelled"
                  /\ resp[p].row.id \in PendingIn(prev, u)
                  /\ table[resp[p].row.id] = resp[p].row
                  /\ PendingIn(table, u) = {}
                  /\ \A q \in Procs \ {p} :
                        pc[q] = "cancel" /\ req[q].user_id = u => beaten[q]
            /\ beaten[p]
               => /\ resp[p].status = 404
                  /\ resp[p].row = NullRow
                  /\ table = prev
                  /\ PendingIn(table, u) = {}

\* C3, its case: the loser of such a race has answered 404 and the row the
\* winner cancelled is cancelled.
C3_Witness ==
    \E p \in Procs :
        /\ Answered(p, "cancel_deletion")
        /\ beaten[p]
        /\ resp[p].status = 404
        /\ \E i \in 1..Len(table) :
              table[i].user_id = req[p].user_id /\ table[i].status = "cancelled"

\* C4: request_deletion for a user who already has a pending row fails with
\* Conflict (400), the response carries that pending row, and no row is added
\* or changed; so the user still has exactly one pending row afterwards.
C4_ConflictOnPending ==
    \A p \in Procs :
        ( /\ Answered(p, "request_deletion")
          /\ writes[p] = 0
          /\ PendingIn(prev, req[p].user_id) # {} )
        => /\ resp[p].status = 400
           /\ "existing_request" \in resp[p].keys
           /\ resp[p].row \in PendingRows(prev, req[p].user_id)
           /\ table = prev
           /\ Cardinality(PendingIn(table, req[p].user_id)) = 1

\* C5: request_deletion at time T for a user with no pending row adds exactly
\* one row, with that user_id, status pending and scheduled_deletion_at =
\* T + 3 days, changes no other row, and returns the created row in a
\* success response.
C5_RequestCreatesRow ==
    \A p \in Procs :
        Answered(p, "request_deletion") =>
            LET u == req[p].user_id
                created == [id |-> Len(prev) + 1, user_id |-> u, status |-> "pending",
                            scheduled_deletion_at |-> loc[p].t + 3,
                            cancelled_at |-> NullTime]
            IN  /\ writes[p] = 0 => PendingIn(prev, u) # {}
                /\ writes[p] = 1 =>
                      /\ loc[p].t \in 0..now
                      /\ table = Append(prev, created)
                      /\ resp[p].status = 200
                      /\ resp[p].keys = {"success", "message", "deletion_request"}
                      /\ resp[p].row = created

\* C5, its case: a request_deletion has answered with the row it created,
\* beside an older row of the table.
C5_Witness ==
    \E p \in Procs :
        /\ Answered(p, "request_deletion")
        /\ resp[p].status = 200
        /\ Len(table) = 2
        /\ resp[p].row = table[2]
        /\ loc[p].t < now

\* C6: cancel_deletion for a user with a pending row changes that row to
\* cancelled with cancelled_at the current time, returns the updated row in
\* a success response, and leaves the user without a pending row, so that a
\* get_status issued afterwards returns has_pending_request = false and
\* deletion_request = null.
C6_CancelOnPending ==
    \A p \in Procs :
        ( /\ Answered(p, "cancel_deletion")
          /\ PendingIn(prev, req[p].user_id) # {} )
        => /\ resp[p].status = 200
           /\ resp[p].row.id \in PendingIn(prev, req[p].user_id)
           /\ resp[p].row = [prev[resp[p].row.id] EXCEPT !.status = "cancelled",
                                                       !.cancelled_at = loc[p].at]
           /\ table = [prev EXCEPT ![resp[p].row.id] = resp[p].row]
           /\ StatusResponse(MaybeSingle(StatusLookupRows(table, req[p].user_id), FALSE).data)
                = Response(200, {"has_pending_request", "deletion_request"}, "", "",
                           NullRow, FALSE)

\* C7: cancel_deletion for a user with no pending row (no rows at all, or
\* only cancelled or completed rows) fails with NotFound (404) and leaves
\* every row of the table unchanged.
C7_CancelWithoutPending ==
    \A p \in Procs :
        ( /\ Answered(p, "cancel_deletion")
          /\ PendingIn(prev, req[p].user_id) = {} )
        => /\ resp[p].status = 404
           /\ resp[p].keys = {"error"}
           /\ resp[p].error = "No pending deletion request found"
           /\ table = prev

\* C7, its case: a cancel_deletion was answered 404 for a user whose rows are
\* a cancelled one and a completed one.
C7_Witness ==
    \E p \in Procs :
        /\ Answered(p, "cancel_deletion")
        /\ resp[p].status = 404
        /\ \E i, j \in 1..Len(table) :
              /\ table[i].user_id = req[p].user_id /\ table[i].status = "cancelled"
              /\ table[j].user_id = req[p].user_id /\ table[j].status = "completed"

\* C8: get_status returns has_pending_request = true exactly when the table
\* holds a pending row for the user, and then deletion_request is that row;
\* otherwise it returns has_pending_request = false and deletion_request =
\* null.
C8_StatusReportsPending ==
    \A p \in Procs :
        Answered(p, "get_status") =>
            LET u == req[p].user_id IN
            /\ resp[p].status = 200
            /\ resp[p].keys = {"has_pending_request", "deletion_request"}
            /\ resp[p].has_pending_request <=> PendingIn(prev, u) # {}
            /\ PendingIn(prev, u) # {} => resp[p].row \in PendingRows(prev, u)
            /\ PendingIn(prev, u) = {} => resp[p].row = NullRow

\* C9: get_status is read-only: no step of a get_status invocation, in any
\* state and for any user_id, changes the deletion-request table.
C9_StatusReadOnly ==
    [][\A p \in Procs :
          ( /\ pc'[p] # pc[p]
            /\ \/ req[p].action = "get_status"
               \/ req'[p].action = "get_status" )
          => table' = table]_vars

\* C9, its case: a get_status has answered while the table holds rows.
C9_Witness ==
    \E p \in Procs :
        /\ Answered(p, "get_status")
        /\ resp[p].has_pending_request
        /\ Len(table) = 2
        /\ table = prev

\* C10: a request whose user_id is missing or empty, whatever its action, is
\* answered InvalidArgument (400) and the invocation issues no storage read
\* and no storage write.
C10_MissingUserId ==
    \A p \in Procs :
        (req[p].body = "json" /\ req[p].user_id \in {NoValue, ""})
        => /\ pc[p] = "done"
           /\ resp[p].status = 400
           /\ resp[p].keys = {"error"}
           /\ resp[p].error = "user_id is required"
           /\ reads[p] = 0
           /\ writes[p] = 0
           /\ table = prev

\* C10, its case: a request_deletion with an empty user_id was answered while
\* the table holds a row.
C10_Witness ==
    \E p \in Procs :
        /\ pc[p] = "done"
        /\ req[p].body = "json"
        /\ req[p].action = "request_deletion"
        /\ req[p].user_id = ""
        /\ resp[p].status = 400
        /\ Len(table) > 0

\* C11: a request with a non-empty user_id and an action that is none of
\* request_deletion, cancel_deletion, get_status is answered InvalidArgument
\* (400) with the message that lists the three valid actions; no storage
\* call is issued and the table is unchanged.
C11_InvalidAction ==
    \A p \in Procs :
        ( /\ req[p].body = "json"
          /\ req[p].user_id \in Users
          /\ req[p].action \notin Actions )
        => /\ pc[p] = "done"
           /\ resp[p].status = 400
           /\ resp[p].keys = {"error"}
           /\ resp[p].error
                = "Invalid action. Use: request_deletion, cancel_deletion, or get_status"
           /\ reads[p] = 0
           /\ writes[p] = 0
           /\ table = prev

\* C11, its case: the action "purge" for an account was answered 400 while
\* the table holds a pending row of that account.
C11_Witness ==
    \E p \in Procs :
        /\ pc[p] = "done"
        /\ req[p].action = "purge"
        /\ req[p].user_id \in Users
        /\ resp[p].status = 400
        /\ PendingIn(table, req[p].user_id) # {}

\* C12: a request whose body cannot be parsed as JSON is classified
\* InvalidArgument: it is answered with status 400.
C12_MalformedInput ==
    \A p \in Procs :
        req[p].body = "malformed"
        => /\ pc[p] = "done"
           /\ resp[p].status = 400

\* The invocation p has answered after one of its storage calls failed
\* unexpectedly: the call resolved with an error other than the PGRST116
\* that cancel_deletion answers with NotFound.
FailedUnexpectedly(p) ==
    /\ pc[p] = "done"
    /\ loc[p].error # NoError
    /\ ~(req[p].action = "cancel_deletion" /\ loc[p].error.code = "PGRST116")

\* C13: when a storage call of an invocation fails unexpectedly, the
\* invocation answers with status 500 and the error field of the body is
\* exactly the message of the storage error.
C13_InternalSurfacesMessage ==
    \A p \in Procs :
        FailedUnexpectedly(p)
        => /\ resp[p].status = 500
           /\ resp[p].keys = {"error"}
           /\ resp[p].error = loc[p].error.message

\* C14: the status of a row follows (none) -> pending -> {cancelled |
\* completed}.  In every step, a row that is cancelled or completed stays as
\* it is; a row changes only while it is pending, and a step of the handler
\* changes it only to cancelled, with cancelled_at the time the invocation
\* took, in the update of a cancel_deletion for the user of the row.  The
\* only other change is pending -> completed, made by the external process.
C14_StatusMachine ==
    [][\A i \in 1..Len(table) :
          (i <= Len(table') /\ table'[i] # table[i]) =>
             /\ table[i].status = "pending"
             /\ \/ /\ pc' = pc
                   /\ table'[i] = [table[i] EXCEPT !.status = "completed"]
                \/ \E p \in Procs :
                      /\ pc[p] = "cancel"
                      /\ pc'[p] = "done"
                      /\ req[p].action = "cancel_deletion"
                      /\ req[p].user_id = table[i].user_id
                      /\ table'[i] = [table[i] EXCEPT !.status = "cancelled",
                                                      !.cancelled_at = loc[p].at]]_vars

\* C14, its case: a cancel_deletion has cancelled the pending row of a user
\* who also has a completed row, and the completed row is as it was.
C14_Witness ==
    \E p \in Procs :
        /\ Answered(p, "cancel_deletion")
        /\ resp[p].status = 200
        /\ Len(table) = 2
        /\ table[1].user_id = req[p].user_id
        /\ table[1].status = "completed"
        /\ table[1] = prev[1]
        /\ prev[2].status = "pending"
        /\ table[2].status = "cancelled"

\* C15: a row is created only by the insert of a request_deletion whose
\* lookup found no pending row of its user (existingRequest is null), one
\* row per insert, for that user and with status pending; invocations
\* running one at a time, the user has no pending row when the row is
\* inserted.  No other step adds a row: not a cancel_deletion or a
\* get_status, not a request that is rejected (preflight, malformed, missing
\* user_id, unknown action, conflict), not an insert that failed.
C15_CreatedOnlyByRequest ==
    [][Len(table') > Len(table) =>
          \E p \in Procs :
             /\ pc[p] = "insert"
             /\ pc'[p] = "done"
             /\ req[p].action = "request_deletion"
             /\ loc[p].existing = NullRow
             /\ PendingIn(table, req[p].user_id) = {}
             /\ loc[p].error = NoError
             /\ reads[p] = 1
             /\ resp'[p].status = 200
             /\ Len(table') = Len(table) + 1
             /\ table'[Len(table')].user_id = req[p].user_id
             /\ table'[Len(table')].status = "pending"]_vars

\* C15, its case: the table holds two rows and the invocation that has just
\* answered is a request_deletion that added the second one.
C15_Witness ==
    \E p \in Procs :
        /\ Answered(p, "request_deletion")
        /\ Len(prev) = 1
        /\ Len(table) = 2
        /\ table[2].status = "pending"
        /\ table[2].user_id = req[p].user_id
        /\ loc[p].existing = NullRow

\* The ids of the rows of a table.
RowIds(t) == {t[i].id : i \in 1..Len(t)}

\* C16: no step removes a row: the set of the ids of the rows of the table
\* only grows, and each row keeps its id and its user_id.
C16_RowsNeverRemoved ==
    [][/\ RowIds(table) \subseteq RowIds(table')
       /\ \A i \in 1..Len(table) :
             \E j \in 1..Len(table') :
                table'[j].id = table[i].id /\ table'[j].user_id = table[i].user_id]_vars

\* C16, its case: a cancel_deletion has succeeded and the two rows that were
\* in the table before it, an older cancelled one and the one it cancelled,
\* are both in the table.
C16_Witness ==
    \E p \in Procs :
        /\ Answered(p, "cancel_deletion")
        /\ resp[p].status = 200
        /\ RowIds(prev) = {1, 2}
        /\ RowIds(table) = {1, 2}
        /\ table[1].status = "cancelled"
        /\ table[2] = resp[p].row

\* C17: in every reachable state, each row of the table has cancelled_at set
\* exactly when its status is cancelled: the insert leaves it NULL, the
\* update of cancel_deletion sets it together with the status, and a row
\* that is completed was pending and has it NULL.
C17_CancelledAtIffCancelled ==
    \A i \in 1..Len(table) :
        table[i].cancelled_at # NullTime <=> table[i].status = "cancelled"

\* C17, its case: the table holds a row cancelled on day 1, with
\* cancelled_at = 1, and a pending row with cancelled_at NULL.
C17_Witness ==
    \E i, j \in 1..Len(table) :
        /\ table[i].status = "cancelled"
        /\ table[i].cancelled_at = MaxTime
        /\ table[j].status = "pending"
        /\ table[j].cancelled_at = NullTime

\* How far an invocation is on its way to its response.
Rank(at) ==
    CASE at = "idle" -> 0
      [] at \in {"check", "cancel", "status"} -> 1
      [] at = "insert" -> 2
      [] at = "done" -> 3

\* C18: every invocation ends with exactly one response and never retries.
\* Every step of an invocation takes it nearer to its response, which it
\* reaches after at most two storage calls (at most one select, at most one
\* insert or update), each storage call being taken to resolve; the response
\* is set once, in the step that ends the invocation; and the step in which
\* a storage call resolves with an error issues no storage call and ends the
\* invocation with a 404 or 500 response.
C18_OneResponseNoRetry ==
    [][\A p \in Procs :
          /\ pc'[p] # pc[p] =>
                \/ Rank(pc'[p]) > Rank(pc[p])
                \/ pc[p] = "done" /\ pc'[p] = "idle"
          /\ reads'[p] <= 1 /\ writes'[p] <= 1
          /\ resp'[p] # resp[p] =>
                \/ pc[p] # "done" /\ pc'[p] = "done" /\ resp[p] = NoResponse
                \/ pc[p] = "done" /\ pc'[p] = "idle" /\ resp'[p] = NoResponse
          /\ pc'[p] = "done" /\ pc[p] # "done" => resp'[p] # NoResponse
          /\ loc'[p].error # NoError /\ pc[p] # "done" =>
                /\ pc'[p] = "done"
                /\ reads'[p] = reads[p]
                /\ writes'[p] = writes[p]
                /\ resp'[p].status \in {404, 500}
          /\ loc[p].error # NoError => pc[p] = "done"]_vars

\* C18, its case: the lookup of a request_deletion failed and the invocation
\* has answered 500 with one select issued and no insert.
C18_Witness ==
    \E p \in Procs :
        /\ Answered(p, "request_deletion")
        /\ loc[p].error = Unavailable
        /\ resp[p].status = 500
        /\ reads[p] = 1
        /\ writes[p] = 0

\* C19 as stated: every invocation of one of the three actions for an account
\* has issued one or two storage reads and at most one storage write when it
\* answers.
C19_OneOrTwoReads ==
    \A p \in Procs, a \in Actions :
        Answered(p, a) => reads[p] \in {1, 2} /\ writes[p] <= 1

\* C19, amended: every invocation of one of the three actions for an account
\* has issued one or two storage calls when it answers.  request_deletion:
\* one read, the lookup, and at most one write, the insert, sent exactly when
\* the lookup resolved with no row and no error.  cancel_deletion: no read
\* and one write, the update that returns the row.  get_status: one read and
\* no write.
C19_StorageCalls ==
    \A p \in Procs :
        /\ Answered(p, "request_deletion") =>
              /\ reads[p] = 1
              /\ writes[p] \in {0, 1}
              /\ writes[p] = 1 <=> (loc[p].existing = NullRow /\ loc[p].t # NullTime)
        /\ Answered(p, "cancel_deletion") => reads[p] = 0 /\ writes[p] = 1
        /\ Answered(p, "get_status") => reads[p] = 1 /\ writes[p] = 0
        /\ \A a \in Actions : Answered(p, a) => reads[p] + writes[p] \in {1, 2}

\* C19, its case: a cancel_deletion has cancelled a row with one storage
\* call, the update.
C19_Witness ==
    \E p \in Procs :
        /\ Answered(p, "cancel_deletion")
        /\ resp[p].status = 200
        /\ reads[p] = 0
        /\ writes[p] = 1
        /\ reads[p] + writes[p] = 1

\* C20: on every path that returns a response to a parsed request (missing
\* user_id, conflict, created, cancelled, not found, status, unknown action,
\* internal error of a storage call), the action and the user identifier
\* have been logged when the response is returned.
C20_LoggedBeforeReturn ==
    \A p \in Procs :
        (pc[p] = "done" /\ req[p].body = "json") => logged[p]

\* C21: every response, on success and on every error path (400, 404, 500),
\* carries the headers of corsHeaders, and a preflight (OPTIONS) request is
\* answered with a null body and those headers, with no storage call issued
\* and the table unchanged.
C21_CorsOnEveryResponse ==
    \A p \in Procs :
        pc[p] = "done" =>
            /\ resp[p].headers = CorsHeaders
            /\ resp[p].status \in {200, 400, 404, 500}
            /\ req[p].method = "OPTIONS" =>
                  /\ resp[p].status = 200
                  /\ resp[p].keys = {}
                  /\ reads[p] = 0
                  /\ writes[p] = 0
                  /\ table = prev

\* C21, its case: a preflight has been answered while the table holds a
\* pending row.
C21_Witness ==
    \E p \in Procs :
        /\ pc[p] = "done"
        /\ req[p].method = "OPTIONS"
        /\ resp[p] = PreflightResponse
        /\ \E i \in 1..Len(table) : table[i].status = "pending"

\* C22: scheduled_deletion_at is fixed at creation: no step (of a
\* cancel_deletion, a get_status, a request_deletion that is rejected or that
\* succeeds, for the same or another user; of the clock; of the external
\* process) changes the scheduled_deletion_at, the id or the user_id of a row
\* that is in the table.
C22_ScheduleFixed ==
    [][\A i \in 1..Len(table) :
          /\ i <= Len(table')
          /\ table'[i].id = table[i].id
          /\ table'[i].user_id = table[i].user_id
          /\ table'[i].scheduled_deletion_at = table[i].scheduled_deletion_at]_vars

\* C22, its case: a row created on day 0 has been cancelled on day 1 and its
\* scheduled_deletion_at is still day 0 + 3.
C22_Witness ==
    \E p \in Procs :
        /\ Answered(p, "cancel_deletion")
        /\ resp[p].status = 200
        /\ resp[p].row.cancelled_at = 1
        /\ resp[p].row.scheduled_deletion_at = GraceDays
        /\ prev[resp[p].row.id].scheduled_deletion_at = GraceDays

\* The rows of table t that differ from the row at the same place in s.
ChangedIn(s, t) == {i \in 1..Len(s) : i > Len(t) \/ t[i] # s[i]}

\* C23: in every state concurrent invocations reach, those where a user has
\* more than one pending row included, the answer of a cancel_deletion
\* matches its effect: with a 404 answer the invocation changed no row, and
\* with a success answer it changed exactly one row, from pending to
\* cancelled, and that row is the one it returns.
C23_CancelAnswerMatchesEffect ==
    \A p \in Procs :
        Answered(p, "cancel_deletion") =>
            /\ resp[p].status \in {200, 404}
            /\ Len(table) = Len(prev)
            /\ resp[p].status = 404 => table = prev
            /\ resp[p].status = 200 =>
                  /\ Cardinality(ChangedIn(prev, table)) = 1
                  /\ \A i \in ChangedIn(prev, table) :
                        /\ prev[i].status = "pending"
                        /\ table[i].status = "cancelled"
                        /\ table[i].user_id = req[p].user_id
                        /\ resp[p].row = table[i]

\* C23, its case: a cancel_deletion for a user with two pending rows was
\* answered 404 and both rows are still pending.
C23_Witness ==
    \E p \in Procs :
        /\ Answered(p, "cancel_deletion")
        /\ resp[p].status = 404
        /\ Cardinality(PendingIn(prev, req[p].user_id)) = 2
        /\ Cardinality(PendingIn(table, req[p].user_id)) = 2

\* C24: when the storage never fails, no state reached by concurrent
\* invocations makes get_status or request_deletion answer 500: the lookup of
\* the pending row, which expects at most one row, succeeds.
C24_LookupNeverFails ==
    \A p \in Procs :
        (Answered(p, "get_status") \/ Answered(p, "request_deletion"))
        => /\ resp[p].status # 500
           /\ loc[p].error = NoError

\* C25: a request_deletion that follows a successful cancel_deletion for the
\* same user (the user has a cancelled row and no pending row) succeeds: it
\* appends a pending row whose scheduled_deletion_at is three days after the
\* time of this request, not earlier than the cancellation, and every row
\* that was in the table, the cancelled one included, is unchanged.
C25_RequestAfterCancel ==
    \A p \in Procs :
        ( /\ Answered(p, "request_deletion")
          /\ PendingIn(prev, req[p].user_id) = {}
          /\ \E i \in 1..Len(prev) :
                prev[i].user_id = req[p].user_id /\ prev[i].status = "cancelled" )
        => /\ resp[p].status = 200
           /\ Len(table) = Len(prev) + 1
           /\ \A i \in 1..Len(prev) : table[i] = prev[i]
           /\ table[Len(table)] = NewRow(Len(table), req[p].user_id, loc[p].t + GraceDays)
           /\ resp[p].row = table[Len(table)]
           /\ \A i \in 1..Len(prev) :
                 prev[i].user_id = req[p].user_id
                 => loc[p].t >= prev[i].cancelled_at

\* C25, its case: the user's row of day 0 was cancelled, and a
\* request_deletion of day 1 has created a second row, scheduled a day later
\* than the first.
C25_Witness ==
    \E p \in Procs :
        /\ Answered(p, "request_deletion")
        /\ resp[p].status = 200
        /\ Len(table) = 2
        /\ table[1].user_id = req[p].user_id
        /\ table[1].status = "cancelled"
        /\ table[2].status = "pending"
        /\ table[2].scheduled_deletion_at = table[1].scheduled_deletion_at + 1

\* The status values of a row.
Statuses == {"pending", "cancelled", "completed"}

\* The tables that differ from t only in rows of users other than u: such a
\* row keeps its id and has any other user, any status, and cancelled_at set
\* or not.
Variants(t, u) ==
    LET others == {i \in 1..Len(t) : t[i].user_id # u} IN
    {[i \in 1..Len(t) |->
         IF i \notin others THEN t[i]
         ELSE [t[i] EXCEPT !.user_id = who[i], !.status = st[i], !.cancelled_at = ca[i]]] :
       who \in [others -> Users \ {u}],
       st \in [others -> Statuses],
       ca \in [others -> {NullTime, 0}]}

\* What the storage call that invocation p answered on gives when it runs on
\* table t: the response of p and the table after it.  The call is the
\* lookup of request_deletion when no insert was sent, else its insert; the
\* update of cancel_deletion; the lookup of get_status.
AnswerOn(p, t) ==
    LET u == req[p].user_id IN
    CASE req[p].action = "get_status" ->
           LET res == MaybeSingle(StatusLookupRows(t, u), FALSE)
           IN  [resp  |-> IF res.error # NoError THEN InternalResponse(res.error)
                          ELSE StatusResponse(res.data),
                table |-> t]
      [] req[p].action = "cancel_deletion" ->
           LET upd == CancelUpdate(t, u, loc[p].at, FALSE)
           IN  [resp  |-> IF upd.result.error # NoError
                          THEN IF upd.result.error.code = "PGRST116"
                               THEN NotFoundResponse
                               ELSE InternalResponse(upd.result.error)
                          ELSE CancelledResponse(upd.result.data),
                table |-> upd.table]
      [] req[p].action = "request_deletion" /\ writes[p] = 0 ->
           LET res == MaybeSingle(RequestLookupRows(t, u), FALSE)
           IN  [resp  |-> IF res.error # NoError THEN InternalResponse(res.error)
                          ELSE ConflictResponse(res.data),
                table |-> t]
      [] req[p].action = "request_deletion" /\ writes[p] = 1 ->
           LET ins == InsertRequest(t, u, loc[p].sched, FALSE)
           IN  [resp  |-> CreatedResponse(ins.result.data), table |-> ins.table]

\* The rows of user u in table t, with their places.
RowsOfUser(t, u) == {<<i, t[i]>> : i \in {j \in 1..Len(t) : t[j].user_id = u}}

\* C26: users are isolated.  An invocation for user u leaves every row of
\* another user as it was and adds no row of another user; and its response,
\* like what it does to the rows of u, is the same on every table that
\* differs from the one it ran on only in rows of other users.
C26_UsersIsolated ==
    \A p \in Procs, a \in Actions :
        Answered(p, a) =>
            LET u == req[p].user_id IN
            /\ \A i \in 1..Len(prev) : prev[i].user_id # u => table[i] = prev[i]
            /\ \A i \in 1..Len(table) : i > Len(prev) => table[i].user_id = u
            /\ AnswerOn(p, prev) = [resp |-> resp[p], table |-> table]
            /\ \A s \in Variants(prev, u) :
                  LET on == AnswerOn(p, s) IN
                  /\ on.resp = resp[p]
                  /\ RowsOfUser(on.table, u) = RowsOfUser(table, u)
                  /\ \A i \in 1..Len(s) : s[i].user_id # u => on.table[i] = s[i]

\* C26, its case: a cancel_deletion of u1 has cancelled the pending row of u1
\* while u2 has a pending row, which is as it was.
C26_Witness ==
    \E p \in Procs :
        /\ Answered(p, "cancel_deletion")
        /\ resp[p].status = 200
        /\ \E i \in 1..Len(table) :
              /\ table[i].user_id # req[p].user_id
              /\ table[i].status = "pending"
              /\ table[i] = prev[i]
        /\ Cardinality(Variants(prev, req[p].user_id)) > 1

\* C27: once no fetch of messages is in flight, the list displayed holds
\* only messages of the selected conversation, whatever the order in which
\* the user switched conversations and the fetches completed.
C27_OnlySelectedShown ==
    (fetches = <<>> /\ selected # None)
    => \A i \in 1..Len(messages) : messages[i].conv = selected

\* C28: the list displayed never holds the same message id twice, however
\* the fetch of the messages of a conversation interleaves with the delivery
\* of the INSERT events of that conversation.
C28_NoDuplicateIds ==
    \A i, j \in 1..Len(messages) : messages[i].id = messages[j].id => i = j

\* A text with no whitespace at its ends.
NoEdgeSpace(s) == s # <<>> /\ s[1] # " " /\ s[Len(s)] # " "

\* C29: handleSend, when it finishes.  It returned at its guard exactly when
\* there was no signed-in user, no selected conversation or the text was
\* blank after trimming, and then it wrote nothing and changed no state.
\* Otherwise, when its insert failed, no message was added, last_message_at
\* and the input are as they were; when its insert succeeded, exactly one
\* message was added, in the conversation that was selected, from the user,
\* with the trimmed text, last_message_at of no other conversation changed
\* and that of this one was set at most once, and the input is empty.  In
\* every case sending is false; until the insert ran, nothing was written.
C29_HandleSend ==
    /\ send.at = "insert" => Mine(db) = send.mine /\ lastMessageAt = send.stamps /\ sending
    /\ send.at = "finished" =>
          LET blank == send.user = None \/ send.conv = None \/ Trim(send.text) = <<>>
              added == Mine(db)[Len(Mine(db))]
          IN  /\ sending = FALSE
              /\ send.outcome \in {"ignored", "failed", "sent"}
              /\ send.outcome = "ignored" <=> blank
              /\ send.outcome \in {"ignored", "failed"} =>
                    /\ Mine(db) = send.mine
                    /\ lastMessageAt = send.stamps
                    /\ newMessage = send.text
              /\ send.outcome = "sent" =>
                    /\ Len(Mine(db)) = Len(send.mine) + 1
                    /\ SubSeq(Mine(db), 1, Len(send.mine)) = send.mine
                    /\ added.conv = send.conv
                    /\ added.sender = send.user
                    /\ added.content = Trim(send.text)
                    /\ NoEdgeSpace(added.content)
                    /\ \A c \in Convs \ {send.conv} : lastMessageAt[c] = send.stamps[c]
                    /\ lastMessageAt[send.conv] - send.stamps[send.conv] \in {0, 1}
                    /\ newMessage = <<>>

\* C29, its case: a text with whitespace around it was sent a second time,
\* after a first message: one row more, with the text trimmed, and
\* last_message_at set.
C29_Witness ==
    /\ send.at = "finished"
    /\ send.outcome = "sent"
    /\ send.text = <<" ", "a", " ">>
    /\ Len(send.mine) = 1
    /\ Len(db) = 2
    /\ db[2].content = <<"a">>
    /\ lastMessageAt[send.conv] = send.stamps[send.conv] + 1
    /\ newMessage = <<>>

\* C30: between calls of handleFollow, the isFollowing flag says whether the
\* follow row exists in storage, and followerCount has moved by one for each
\* write that succeeded and not at all for a write that failed.
C30_FollowMatchesStorage ==
    follow.at = "idle" => isFollowing = followRow /\ followerCount = followDelta

====
